---- MODULE Spec2Model ----
(***************************************************************************)
(* Worker-pool scheduler of gemini_key_rotator (GeminiGenerator):          *)
(* generate_batch, _worker and _call_model over one asyncio event loop.    *)
(* An action is one run of a coroutine between two suspension points.      *)
(***************************************************************************)
EXTENDS Integers, Sequences, FiniteSets, TLC

(* ---------------------------------------------------------------- bounds *)
NumSlots == 2
MaxWorkersPerKey == 1
MaxTasks == 2
MaxCkpt == 1
MaxRetriesBound == 1
MaxLoad == 8

(* ------------------------------------------------------ program constants *)
RateLimitPerSlot == 12
DefaultCooldown == 60
MaxCooldown == 120

Ids == 1..MaxTasks
Sentinel == 0
NoWorker == 0
NoHint == 0 - 1
StartTime == RateLimitPerSlot

\* Size of a run: every slot may meet every task once, and once more for
\* every call the remote service fails (WorkBudget = tasks plus failed calls).
WorkBudget == MaxLoad \div NumSlots

VARIABLES
    apiKeys,        \* len(api_keys) after _load_keys_from_env
    workersPerKey,  \* workers_per_key
    idKey,          \* id_key
    promptKey,      \* prompt_key
    tasks,          \* the submitted batch: sequence of task ids
    maxRetries,     \* max_retries_per_task
    parseJson,      \* parse_json
    outputFile,     \* TRUE iff an output_file path was given
    file,           \* the checkpoint artifact
    pcMain,         \* position of generate_batch
    retval,         \* list returned by generate_batch
    queue,          \* asyncio.Queue items (task instances, Sentinel)
    unfinished,     \* asyncio.Queue._unfinished_tasks
    joinWoken,      \* the waiter of queue.join() has been resolved
    results,        \* the shared results list
    doneIds,        \* done_ids
    pc,             \* position of each worker
    held,           \* the task a worker popped and still holds
    errCount,       \* task["_task_error_count"] of each task instance
    resultEntry,    \* result_entry of a worker waiting for the save lock
    wakeAt,         \* end of a worker's rate-limit sleep
    lastCallAt,     \* last_call_time
    cooldownUntil,  \* slot_cooldown_until
    exhausted,      \* slot_exhausted
    activeCount,    \* _active_count
    stats,          \* self.stats
    saveLock,       \* holder of _save_lock, NoWorker when free
    now,            \* time.time()
    taskIssues      \* history: number of task_issue outcomes of each task

vars == <<apiKeys, workersPerKey, idKey, promptKey, tasks, maxRetries, parseJson, outputFile, file, pcMain, retval,
          queue, unfinished, joinWoken, results, doneIds, pc, held, errCount,
          resultEntry, wakeAt, lastCallAt, cooldownUntil, exhausted,
          activeCount, stats, saveLock, now, taskIssues>>

cfgVars == <<apiKeys, workersPerKey, idKey, promptKey, tasks, maxRetries,
            parseJson, outputFile>>

\* self.clients holds one client per key and worker of that key; a slot is
\* the index of a client, and worker i serves slot i.
TotalSlots_KeysOnly == apiKeys

TotalSlots == apiKeys * workersPerKey

Slots == 1..TotalSlots

(* ------------------------------------------------------------- helpers *)
Min(a, b) == IF a <= b THEN a ELSE b

SetMin(S) == CHOOSE x \in S : \A y \in S : x <= y

SeqsUpTo(S, n) == UNION {[1..k -> S] : k \in 0..n}

RECURSIVE SelectIdx(_, _, _)
SelectIdx(s, i, D) ==
    IF i > Len(s) THEN <<>>
    ELSE IF s[i] \in D THEN SelectIdx(s, i + 1, D)
    ELSE <<i>> \o SelectIdx(s, i + 1, D)

Range(s) == {s[i] : i \in 1..Len(s)}

\* Batches up to renaming of ids: a new id is the least id not used so far.
FirstUse(s) ==
    \A i \in 1..Len(s) :
        s[i] <= 1 + Cardinality({s[j] : j \in 1..(i - 1)})

Batches == {s \in SeqsUpTo(Ids, Min(MaxTasks, WorkBudget)) : FirstUse(s)}

(* ----------------------------------------------------------- task fields *)
IdKeys == {"id", "uid"}

PromptKeys == {"prompt", "text"}

NoId == 0 - 1

EmptyPrompt == 0

\* The prompt text of the t-th submitted task (texts are told apart from ids
\* and from the empty text).
PromptOf(t) == MaxTasks + t

\* task_dict of the t-th submitted task: its id under id_key, its text under
\* prompt_key.
TaskDict(t) == (idKey :> tasks[t]) @@ (promptKey :> PromptOf(t))

\* What the worker reads from a task it popped.
WorkerTaskId(d) == IF "id" \in DOMAIN d THEN d["id"] ELSE NoId

WorkerPrompt(d) == IF "prompt" \in DOMAIN d THEN d["prompt"] ELSE EmptyPrompt

(* --------------------------------------------------------------- records *)
NoRecord == [hasId |-> FALSE, id |-> 0, inst |-> 0, success |-> FALSE,
             attempted |-> 0, reason |-> "none", internal |-> FALSE]

CkptRecord(h, i) == [hasId |-> h, id |-> i, inst |-> 0, success |-> TRUE,
                     attempted |-> 0, reason |-> "none", internal |-> FALSE]

\* The task dict has the key _task_error_count once a count was stored in it,
\* and {**task, ...} copies the key into the record; pop removes it.
HasInternal(t) == errCount[t] > 0

PopInternal_Kept(r) == r

PopInternal(r) == [r EXCEPT !.internal = FALSE]

SuccessEntry_MarkedFailed(t) ==
    [hasId |-> TRUE, id |-> tasks[t], inst |-> t, success |-> FALSE,
     attempted |-> 0, reason |-> "none", internal |-> FALSE]

SuccessEntry(t) ==
    PopInternal([hasId |-> TRUE, id |-> tasks[t], inst |-> t,
                 success |-> TRUE, attempted |-> 0, reason |-> "none",
                 internal |-> HasInternal(t)])

FailureEntry(t, n) ==
    PopInternal([hasId |-> TRUE, id |-> tasks[t], inst |-> t,
                 success |-> FALSE, attempted |-> n, reason |-> "task_error",
                 internal |-> HasInternal(t)])

(* ------------------------------------------------------ checkpoint file *)
NoFile == [kind |-> "absent", recs |-> <<>>]
EmptyFile == [kind |-> "empty", recs |-> <<>>]
CorruptFile == [kind |-> "corrupt", recs |-> <<>>]
\* Bytes that are not UTF-8 text.
UndecodableFile == [kind |-> "undecodable", recs |-> <<>>]
JsonFile(rs) == [kind |-> "json", recs |-> rs]

CkptRecords == {CkptRecord(TRUE, i) : i \in Ids} \cup {CkptRecord(FALSE, 0)}

InitialFiles ==
    {NoFile, EmptyFile, CorruptFile, UndecodableFile} \cup
    {JsonFile(rs) : rs \in SeqsUpTo(CkptRecords, MaxCkpt)}

LoadedResults(f) == IF f.kind = "json" THEN f.recs ELSE <<>>

LoadedDoneIds_Forgotten(f) == {}

LoadedDoneIds(f) ==
    IF f.kind = "json"
    THEN {f.recs[i].id : i \in {j \in 1..Len(f.recs) : f.recs[j].hasId}}
    ELSE {}

(* ----------------------------------------------------------------- queue *)
QState == [q |-> queue, u |-> unfinished, woken |-> joinWoken]

QPut_Front(qs, x) == [q |-> <<x>> \o qs.q, u |-> qs.u + 1, woken |-> qs.woken]

QPut(qs, x) == [q |-> Append(qs.q, x), u |-> qs.u + 1, woken |-> qs.woken]

QPop(qs) == [q |-> Tail(qs.q), u |-> qs.u, woken |-> qs.woken]

QTaskDone(qs) ==
    [q |-> qs.q, u |-> qs.u - 1,
     woken |-> qs.woken \/ (qs.u - 1 = 0 /\ pcMain = "joining")]

SetQueue(qs) ==
    /\ queue' = qs.q
    /\ unfinished' = qs.u
    /\ joinWoken' = qs.woken

(* ----------------------------------------------------------------- slots *)
IsSlotAvailable_CooldownOnly(s) == now >= cooldownUntil[s]

IsSlotAvailable_Flipped(s) ==
    IF exhausted[s] THEN FALSE ELSE now < cooldownUntil[s]

IsSlotAvailable(s) ==
    IF exhausted[s] THEN FALSE ELSE now >= cooldownUntil[s]

(* ------------------------------------------------------------------ Init *)
Setup ==
    /\ apiKeys \in 0..NumSlots
    /\ workersPerKey \in 0..MaxWorkersPerKey
    /\ apiKeys * workersPerKey <= NumSlots
    /\ tasks \in Batches
    /\ maxRetries \in 0..Min(MaxRetriesBound, WorkBudget - Len(tasks))
    /\ parseJson = TRUE   \* a run without parse_json is a run where every
                          \* response parses
    /\ outputFile \in BOOLEAN
    /\ file \in IF outputFile THEN InitialFiles ELSE {NoFile}
    /\ pcMain = IF apiKeys = 0 THEN "rejected" ELSE "start"
    /\ retval = <<>>
    /\ queue = <<>>
    /\ unfinished = 0
    /\ joinWoken = FALSE
    /\ results = <<>>
    /\ doneIds = {}
    /\ pc = [w \in Slots |-> "notstarted"]
    /\ held = [w \in Slots |-> 0]
    /\ resultEntry = [w \in Slots |-> NoRecord]
    /\ wakeAt = [w \in Slots |-> 0]
    /\ lastCallAt = [s \in Slots |-> 0]
    /\ cooldownUntil = [s \in Slots |-> 0]
    /\ exhausted = [s \in Slots |-> FALSE]
    /\ activeCount = 0
    /\ stats = [total_requests |-> 0, successful_requests |-> 0,
                failed_requests |-> 0, total_api_calls |-> 0,
                retried_tasks |-> 0]
    /\ saveLock = NoWorker
    /\ now = StartTime
    /\ taskIssues = [t \in 1..Len(tasks) |-> 0]

\* Task dicts without the key _task_error_count.
FreshTasks == errCount = [t \in 1..Len(tasks) |-> 0]

\* The default field names.
Init ==
    /\ idKey = "id"
    /\ promptKey = "prompt"
    /\ Setup
    /\ FreshTasks

(* -------------------------------------------------------- generate_batch *)
TaskList_Unfiltered(f) == SelectIdx(tasks, 1, {})

TaskList_DedupInput(f) ==
    SelectSeq(SelectIdx(tasks, 1, LoadedDoneIds(f)),
              LAMBDA i : \A j \in 1..(i - 1) : tasks[j] # tasks[i])

TaskList(f) == SelectIdx(tasks, 1, LoadedDoneIds(f))

Main_Start ==
    /\ pcMain = "start"
    /\ LET f == IF outputFile THEN file ELSE NoFile
           tl == TaskList(f)
       IN IF f.kind = "undecodable"
          THEN /\ pcMain' = "raised"    \* f.read() is outside the try
               /\ UNCHANGED <<results, doneIds, retval, queue, unfinished,
                              pc>>
          ELSE /\ results' = LoadedResults(f)
               /\ doneIds' = LoadedDoneIds(f)
               /\ IF tl = <<>>
                  THEN /\ pcMain' = "returned"
                       /\ retval' = LoadedResults(f)
                       /\ UNCHANGED <<queue, unfinished, pc>>
                  ELSE /\ pcMain' = "joining"
                       /\ queue' = tl
                       /\ unfinished' = Len(tl)
                       /\ pc' = [w \in Slots |-> "idle"]
                       /\ UNCHANGED retval
    /\ UNCHANGED <<cfgVars, file, joinWoken, held, errCount, resultEntry,
                   wakeAt, lastCallAt, cooldownUntil, exhausted, activeCount,
                   stats, saveLock, now, taskIssues>>

Main_AfterJoin_OneSentinel ==
    /\ pcMain = "joining"
    /\ joinWoken
    /\ pcMain' = "gathering"
    /\ queue' = Append(queue, Sentinel)
    /\ unfinished' = unfinished + 1
    /\ UNCHANGED <<cfgVars, file, retval, joinWoken, results, doneIds, pc,
                   held, errCount, resultEntry, wakeAt, lastCallAt,
                   cooldownUntil, exhausted, activeCount, stats, saveLock,
                   now, taskIssues>>

Main_AfterJoin ==
    /\ pcMain = "joining"
    /\ joinWoken
    /\ pcMain' = "gathering"
    /\ queue' = queue \o [i \in 1..TotalSlots |-> Sentinel]
    /\ unfinished' = unfinished + TotalSlots
    /\ UNCHANGED <<cfgVars, file, retval, joinWoken, results, doneIds, pc,
                   held, errCount, resultEntry, wakeAt, lastCallAt,
                   cooldownUntil, exhausted, activeCount, stats, saveLock,
                   now, taskIssues>>

Main_Return ==
    /\ pcMain = "gathering"
    /\ \A w \in Slots : pc[w] = "stopped"
    /\ pcMain' = "returned"
    /\ retval' = results
    /\ UNCHANGED <<cfgVars, file, queue, unfinished, joinWoken, results,
                   doneIds, pc, held, errCount, resultEntry, wakeAt,
                   lastCallAt, cooldownUntil, exhausted, activeCount, stats,
                   saveLock, now, taskIssues>>

(* ----------------------------------------------- _worker: queue.get side *)
W_Stop(w) ==
    /\ pc[w] = "idle"
    /\ queue # <<>>
    /\ Head(queue) = Sentinel
    /\ SetQueue(QTaskDone(QPop(QState)))
    /\ pc' = [pc EXCEPT ![w] = "stopped"]
    /\ UNCHANGED <<cfgVars, file, pcMain, retval, results, doneIds, held,
                   errCount, resultEntry, wakeAt, lastCallAt, cooldownUntil,
                   exhausted, activeCount, stats, saveLock, now, taskIssues>>

SkipRequeue_Dropped(t) == QTaskDone(QPop(QState))

SkipRequeue(t) == QTaskDone(QPut(QPop(QState), t))

W_Skip_Counted(w) ==
    /\ pc[w] = "idle"
    /\ queue # <<>>
    /\ Head(queue) # Sentinel
    /\ ~IsSlotAvailable(w)
    /\ SetQueue(SkipRequeue(Head(queue)))
    /\ pc' = [pc EXCEPT ![w] = "paused"]
    /\ stats' = [stats EXCEPT !.retried_tasks = @ + 1]
    /\ UNCHANGED <<cfgVars, file, pcMain, retval, results, doneIds, held,
                   errCount, resultEntry, wakeAt, lastCallAt, cooldownUntil,
                   exhausted, activeCount, saveLock, now, taskIssues>>

W_Skip(w) ==
    /\ pc[w] = "idle"
    /\ queue # <<>>
    /\ Head(queue) # Sentinel
    /\ ~IsSlotAvailable(w)
    /\ SetQueue(SkipRequeue(Head(queue)))
    /\ pc' = [pc EXCEPT ![w] = "paused"]
    /\ UNCHANGED <<cfgVars, file, pcMain, retval, results, doneIds, held,
                   errCount, resultEntry, wakeAt, lastCallAt, cooldownUntil,
                   exhausted, activeCount, stats, saveLock, now, taskIssues>>

W_Resume(w) ==
    /\ pc[w] = "paused"
    /\ pc' = [pc EXCEPT ![w] = "idle"]
    /\ UNCHANGED <<cfgVars, file, pcMain, retval, queue, unfinished,
                   joinWoken, results, doneIds, held, errCount, resultEntry,
                   wakeAt, lastCallAt, cooldownUntil, exhausted, activeCount,
                   stats, saveLock, now, taskIssues>>

RateLimitDelay_None(s) == 0

RateLimitDelay(s) ==
    LET elapsed == now - lastCallAt[s]
    IN IF elapsed < RateLimitPerSlot THEN RateLimitPerSlot - elapsed ELSE 0

BeginCall_NoGauge(w) ==
    /\ activeCount' = activeCount
    /\ stats' = [stats EXCEPT !.total_api_calls = @ + 1]
    /\ pc' = [pc EXCEPT ![w] = "calling"]

BeginCall(w) ==
    /\ activeCount' = activeCount + 1
    /\ stats' = [stats EXCEPT !.total_api_calls = @ + 1]
    /\ pc' = [pc EXCEPT ![w] = "calling"]

W_Sleep(w) ==
    /\ pc[w] = "idle"
    /\ queue # <<>>
    /\ Head(queue) # Sentinel
    /\ IsSlotAvailable(w)
    /\ RateLimitDelay(w) > 0
    /\ held' = [held EXCEPT ![w] = Head(queue)]
    /\ SetQueue(QPop(QState))
    /\ wakeAt' = [wakeAt EXCEPT ![w] = now + RateLimitDelay(w)]
    /\ pc' = [pc EXCEPT ![w] = "ratewait"]
    /\ UNCHANGED <<cfgVars, file, pcMain, retval, results, doneIds, errCount,
                   resultEntry, lastCallAt, cooldownUntil, exhausted,
                   activeCount, stats, saveLock, now, taskIssues>>

W_Call(w) ==
    /\ pc[w] = "idle"
    /\ queue # <<>>
    /\ Head(queue) # Sentinel
    /\ IsSlotAvailable(w)
    /\ RateLimitDelay(w) = 0
    /\ held' = [held EXCEPT ![w] = Head(queue)]
    /\ SetQueue(QPop(QState))
    /\ BeginCall(w)
    /\ UNCHANGED <<cfgVars, file, pcMain, retval, results, doneIds, errCount,
                   resultEntry, wakeAt, lastCallAt, cooldownUntil, exhausted,
                   saveLock, now, taskIssues>>

W_Wake(w) ==
    /\ pc[w] = "ratewait"
    /\ now >= wakeAt[w]
    /\ BeginCall(w)
    /\ UNCHANGED <<cfgVars, file, pcMain, retval, queue, unfinished,
                   joinWoken, results, doneIds, held, errCount, resultEntry,
                   wakeAt, lastCallAt, cooldownUntil, exhausted, saveLock,
                   now, taskIssues>>

(* ------------------------------------------- _worker: append and persist *)
AppendAndPersist_Prepend(w, entry) ==
    /\ results' = <<entry>> \o results
    /\ doneIds' = LET task_id == WorkerTaskId(TaskDict(entry.inst))
                  IN IF task_id # NoId THEN doneIds \cup {task_id}
                     ELSE doneIds
    /\ resultEntry' = [resultEntry EXCEPT ![w] = NoRecord]
    /\ IF outputFile
       THEN /\ saveLock' = w
            /\ pc' = [pc EXCEPT ![w] = "opening"]
            /\ UNCHANGED <<queue, unfinished, joinWoken, held>>
       ELSE /\ saveLock' = NoWorker
            /\ SetQueue(QTaskDone(QState))
            /\ pc' = [pc EXCEPT ![w] = "idle"]
            /\ held' = [held EXCEPT ![w] = 0]

AppendAndPersist(w, entry) ==
    /\ results' = Append(results, entry)
    /\ doneIds' = LET task_id == WorkerTaskId(TaskDict(entry.inst))
                  IN IF task_id # NoId THEN doneIds \cup {task_id}
                     ELSE doneIds
    /\ resultEntry' = [resultEntry EXCEPT ![w] = NoRecord]
    /\ IF outputFile
       THEN /\ saveLock' = w
            /\ pc' = [pc EXCEPT ![w] = "opening"]
            /\ UNCHANGED <<queue, unfinished, joinWoken, held>>
       ELSE /\ saveLock' = NoWorker
            /\ SetQueue(QTaskDone(QState))
            /\ pc' = [pc EXCEPT ![w] = "idle"]
            /\ held' = [held EXCEPT ![w] = 0]

EnterSave_NoLock(w, entry) == AppendAndPersist(w, entry)

EnterSave(w, entry) ==
    IF saveLock = NoWorker
    THEN AppendAndPersist(w, entry)
    ELSE /\ pc' = [pc EXCEPT ![w] = "lockwait"]
         /\ resultEntry' = [resultEntry EXCEPT ![w] = entry]
         /\ UNCHANGED <<results, doneIds, saveLock, queue, unfinished,
                        joinWoken, held>>

W_AcquireSave(w) ==
    /\ pc[w] = "lockwait"
    /\ saveLock = NoWorker
    /\ AppendAndPersist(w, resultEntry[w])
    /\ UNCHANGED <<cfgVars, file, pcMain, retval, errCount, wakeAt,
                   lastCallAt, cooldownUntil, exhausted, activeCount, stats,
                   now, taskIssues>>

W_OpenFile(w) ==
    /\ pc[w] = "opening"
    /\ file' = EmptyFile
    /\ pc' = [pc EXCEPT ![w] = "writing"]
    /\ UNCHANGED <<cfgVars, pcMain, retval, queue, unfinished, joinWoken,
                   results, doneIds, held, errCount, resultEntry, wakeAt,
                   lastCallAt, cooldownUntil, exhausted, activeCount, stats,
                   saveLock, now, taskIssues>>

W_WriteFile_Diff(w) ==
    /\ pc[w] = "writing"
    /\ file' = JsonFile(<<results[Len(results)]>>)
    /\ saveLock' = NoWorker
    /\ SetQueue(QTaskDone(QState))
    /\ pc' = [pc EXCEPT ![w] = "idle"]
    /\ held' = [held EXCEPT ![w] = 0]
    /\ UNCHANGED <<cfgVars, pcMain, retval, results, doneIds, errCount,
                   resultEntry, wakeAt, lastCallAt, cooldownUntil, exhausted,
                   activeCount, stats, now, taskIssues>>

W_WriteFile(w) ==
    /\ pc[w] = "writing"
    /\ file' = JsonFile(results)
    /\ saveLock' = NoWorker
    /\ SetQueue(QTaskDone(QState))
    /\ pc' = [pc EXCEPT ![w] = "idle"]
    /\ held' = [held EXCEPT ![w] = 0]
    /\ UNCHANGED <<cfgVars, pcMain, retval, results, doneIds, errCount,
                   resultEntry, wakeAt, lastCallAt, cooldownUntil, exhausted,
                   activeCount, stats, now, taskIssues>>

(* ------------------------------------------------ _worker: outcome routing *)
Requeue_DoneFirst(t) == QPut(QTaskDone(QState), t)

Requeue_Twice(t) == QTaskDone(QPut(QPut(QState, t), t))

Requeue(t) == QTaskDone(QPut(QState, t))

RouteSuccess_NoTotal(w) ==
    /\ stats' = [stats EXCEPT !.successful_requests = @ + 1]
    /\ EnterSave(w, SuccessEntry(held[w]))
    /\ UNCHANGED <<errCount, taskIssues, file>>

RouteSuccess(w) ==
    /\ stats' = [stats EXCEPT !.successful_requests = @ + 1,
                              !.total_requests = @ + 1]
    /\ EnterSave(w, SuccessEntry(held[w]))
    /\ UNCHANGED <<errCount, taskIssues, file>>

RouteKeyIssue_Counted(w) ==
    /\ SetQueue(Requeue(held[w]))
    /\ stats' = [stats EXCEPT !.retried_tasks = @ + 1]
    /\ errCount' = [errCount EXCEPT ![held[w]] = @ + 1]
    /\ pc' = [pc EXCEPT ![w] = "idle"]
    /\ held' = [held EXCEPT ![w] = 0]
    /\ UNCHANGED <<taskIssues, file, results, doneIds, resultEntry, saveLock>>

RouteKeyIssue(w) ==
    /\ SetQueue(Requeue(held[w]))
    /\ stats' = [stats EXCEPT !.retried_tasks = @ + 1]
    /\ pc' = [pc EXCEPT ![w] = "idle"]
    /\ held' = [held EXCEPT ![w] = 0]
    /\ UNCHANGED <<errCount, taskIssues, file, results, doneIds, resultEntry,
                   saveLock>>

RetriesLeft_OffByOne(t) == errCount[t] <= maxRetries

RetriesLeft_Never(t) == FALSE

RetriesLeft(t) == errCount[t] < maxRetries

RouteTaskIssue(w) ==
    LET t == held[w]
    IN /\ taskIssues' = [taskIssues EXCEPT ![t] = @ + 1]
       /\ IF RetriesLeft(t)
          THEN /\ errCount' = [errCount EXCEPT ![t] = @ + 1]
               /\ SetQueue(Requeue(t))
               /\ stats' = [stats EXCEPT !.retried_tasks = @ + 1]
               /\ pc' = [pc EXCEPT ![w] = "idle"]
               /\ held' = [held EXCEPT ![w] = 0]
               /\ UNCHANGED <<file, results, doneIds, resultEntry, saveLock>>
          ELSE /\ stats' = [stats EXCEPT !.failed_requests = @ + 1,
                                         !.total_requests = @ + 1]
               /\ EnterSave(w, FailureEntry(t, errCount[t]))
               /\ UNCHANGED <<errCount, file>>

(* ----------------------------------------------------------- _call_model *)
\* An exception of the remote call: whether its text has a permanent
\* signature, whether it has a rate-limit signature, and the retry delay
\* each of the three methods of extract_retry_delay finds in it (NoHint when
\* the method finds none).  The structured detail and the message text are
\* matched as digits; the retry_delay attribute is converted with float(), so
\* it may be zero or negative.
Errors == [perm : BOOLEAN, rl : BOOLEAN, structured : {NoHint, 200},
           attr : {NoHint, 0, 0 - 5}, text : {NoHint, 60}]

\* Calls that ended without a success so far, and the number of calls the
\* remote service may fail in this run.
FailedCalls ==
    stats.total_api_calls - activeCount - stats.successful_requests

FailureAllowance == WorkBudget - Len(tasks)

ExtractRetryDelay(e) ==
    IF e.structured # NoHint THEN e.structured
    ELSE IF e.attr # NoHint THEN e.attr
    ELSE IF e.text # NoHint THEN e.text
    ELSE NoHint

IsPermanentlyExhausted_AfterRateLimit(e) ==
    e.perm /\ ExtractRetryDelay(e) = NoHint /\ ~e.rl

IsPermanentlyExhausted(e) == e.perm

IsRateLimit_Always(e) == TRUE

IsRateLimit(e) == ExtractRetryDelay(e) # NoHint \/ e.rl

CooldownDuration(retry_s) ==
    IF retry_s # NoHint /\ retry_s # 0
    THEN Min(retry_s, MaxCooldown)
    ELSE DefaultCooldown

W_CallReturns(w, parsable) ==
    /\ pc[w] = "calling"
    /\ lastCallAt' = [lastCallAt EXCEPT ![w] = now]
    /\ activeCount' = activeCount - 1
    /\ (parseJson /\ ~parsable) => FailedCalls < FailureAllowance
    /\ IF parseJson /\ ~parsable THEN RouteTaskIssue(w) ELSE RouteSuccess(w)
    /\ UNCHANGED <<cfgVars, pcMain, retval, wakeAt, cooldownUntil, exhausted,
                   now>>

W_CallRaises(w, e) ==
    /\ pc[w] = "calling"
    /\ FailedCalls < FailureAllowance
    /\ lastCallAt' = [lastCallAt EXCEPT ![w] = now]
    /\ activeCount' = activeCount - 1
    /\ IF IsPermanentlyExhausted(e)
       THEN /\ exhausted' = [exhausted EXCEPT ![w] = TRUE]
            /\ RouteKeyIssue(w)
            /\ UNCHANGED cooldownUntil
       ELSE IF IsRateLimit(e)
       THEN /\ cooldownUntil' = [cooldownUntil EXCEPT
                   ![w] = now + CooldownDuration(ExtractRetryDelay(e))]
            /\ RouteKeyIssue(w)
            /\ UNCHANGED exhausted
       ELSE /\ RouteTaskIssue(w)
            /\ UNCHANGED <<exhausted, cooldownUntil>>
    /\ UNCHANGED <<cfgVars, pcMain, retval, wakeAt, now>>

(* ------------------------------------------------------------------ time *)
Deadlines ==
    {cooldownUntil[s] : s \in {x \in Slots : ~exhausted[x]}} \cup
    {wakeAt[w] : w \in {x \in Slots : pc[x] = "ratewait"}}

Tick ==
    /\ pcMain \in {"joining", "gathering"}
    /\ {d \in Deadlines : d > now} # {}
    /\ now' = SetMin({d \in Deadlines : d > now})
    /\ UNCHANGED <<cfgVars, file, pcMain, retval, queue, unfinished,
                   joinWoken, results, doneIds, pc, held, errCount,
                   resultEntry, wakeAt, lastCallAt, cooldownUntil, exhausted,
                   activeCount, stats, saveLock, taskIssues>>

(* ------------------------------------------------------------------ Next *)
WorkerStep(w) ==
    \/ W_Stop(w)
    \/ W_Skip(w)
    \/ W_Resume(w)
    \/ W_Sleep(w)
    \/ W_Call(w)
    \/ W_Wake(w)
    \/ W_AcquireSave(w)
    \/ W_OpenFile(w)
    \/ W_WriteFile(w)
    \/ \E parsable \in BOOLEAN : W_CallReturns(w, parsable)
    \/ \E e \in Errors : W_CallRaises(w, e)

Next ==
    \/ Main_Start
    \/ Main_AfterJoin
    \/ Main_Return
    \/ \E w \in Slots : WorkerStep(w)
    \/ Tick

Spec == Init /\ [][Next]_vars

\* The event loop runs every ready coroutine, timers fire, and a remote call
\* in flight ends.
Fairness ==
    /\ WF_vars(Main_Start)
    /\ WF_vars(Main_AfterJoin)
    /\ WF_vars(Main_Return)
    /\ WF_vars(Tick)
    /\ \A w \in 1..NumSlots : WF_vars(w \in Slots /\ WorkerStep(w))

\* Progress does not depend on the ids or on what a checkpoint held: the
\* batches of LiveSpec have distinct ids and start without a checkpoint.
LiveInit ==
    /\ Init
    /\ apiKeys = NumSlots
    /\ workersPerKey = 1
    /\ \A i \in 1..Len(tasks) : tasks[i] = i
    /\ file = NoFile

LiveSpec == LiveInit /\ [][Next]_vars /\ Fairness

\* Batches submitted under any choice of the field names; what the workers
\* read does not depend on the ids or on what a checkpoint held.
FieldInit ==
    /\ idKey \in IdKeys
    /\ promptKey \in PromptKeys
    /\ Setup
    /\ FreshTasks
    /\ apiKeys = NumSlots
    /\ \A i \in 1..Len(tasks) : tasks[i] = i
    /\ file = NoFile

FieldSpec == FieldInit /\ [][Next]_vars

\* A batch whose task dicts went through generate_batch before: the worker
\* stores the count in the caller's dict (task["_task_error_count"] = ...) and
\* pops it only from the copy it records, so the dicts of a list submitted
\* again carry the counts the earlier batch left, up to its max_retries.
ResubmitInit ==
    /\ idKey = "id"
    /\ promptKey = "prompt"
    /\ Setup
    /\ errCount \in [1..Len(tasks) -> 0..MaxRetriesBound]
    /\ apiKeys = NumSlots
    /\ \A i \in 1..Len(tasks) : tasks[i] = i
    /\ file = NoFile

ResubmitSpec == ResubmitInit /\ [][Next]_vars

TypeOK ==
    /\ pcMain \in {"rejected", "start", "raised", "joining", "gathering",
                  "returned"}
    /\ unfinished >= 0
    /\ activeCount >= 0

(* ------------------------------------------------- vocabulary of the claims *)
TaskInsts == 1..Len(tasks)

IdCount(rs, i) == Cardinality({k \in 1..Len(rs) : rs[k].hasId /\ rs[k].id = i})

RecordsOf(rs, t) == {k \in 1..Len(rs) : rs[k].inst = t}

\* Records loaded from the checkpoint are the records of no task instance.
LoadedPart(rs) == SelectSeq(rs, LAMBDA r : r.inst = 0)

RunPart(rs) == SelectSeq(rs, LAMBDA r : r.inst # 0)

LoadedIds(rs) == {rs[k].id : k \in {j \in 1..Len(rs) : rs[j].inst = 0 /\ rs[j].hasId}}

DistinctIds(rs) == \A i \in Ids : IdCount(rs, i) <= 1

DistinctBatch == \A i, j \in TaskInsts : tasks[i] = tasks[j] => i = j

\* Failure records of task t, appended or built and waiting for the save lock.
FailureEntries(t) ==
    {results[k] : k \in {j \in 1..Len(results) :
                            results[j].inst = t /\ ~results[j].success}}
    \cup {resultEntry[w] : w \in {x \in Slots :
                            resultEntry[x].inst = t /\ ~resultEntry[x].success}}

(* ------------------------------------------------------------------ C1 *)
\* C1 (as stated): in the list generate_batch returns, every task that
\* reached Success has exactly one record carrying its id and no task id
\* appears in two records.
C1_UniqueIds ==
    pcMain = "returned" =>
        /\ DistinctIds(retval)
        /\ \A k \in 1..Len(retval) :
               (retval[k].inst # 0 /\ retval[k].success)
                   => IdCount(retval, retval[k].id) = 1

\* C1 (amended): when the submitted tasks have pairwise distinct ids and the
\* loaded checkpoint has no two records with the same id, the returned list
\* has no id in two records and exactly one record with the id of every task
\* that reached Success; in every case a task instance that reached Success
\* has exactly one record of its own.
C1_UniqueIdsOfDistinctBatch ==
    pcMain = "returned" =>
        /\ \A t \in TaskInsts : Cardinality(RecordsOf(retval, t)) <= 1
        /\ (DistinctBatch /\ DistinctIds(LoadedPart(retval))) =>
               /\ DistinctIds(retval)
               /\ \A k \in 1..Len(retval) :
                      (retval[k].inst # 0 /\ retval[k].success)
                          => IdCount(retval, retval[k].id) = 1

C1_Witness ==
    /\ pcMain = "returned"
    /\ DistinctBatch
    /\ Len(LoadedPart(retval)) > 0
    /\ \E k \in 1..Len(retval) : retval[k].inst # 0 /\ retval[k].success
    /\ \E t \in TaskInsts : tasks[t] \in LoadedIds(retval)

(* ------------------------------------------------------------------ C2 *)
\* C2: a task gets its terminal failure record exactly on its
\* (maxRetries + 1)-th task_issue outcome, never earlier or later, for every
\* maxRetries >= 0; the record has success = false, failure_reason =
\* "task_error" and task_errors_attempted = maxRetries.
C2_TerminalAfterRetries ==
    \A t \in TaskInsts :
        /\ taskIssues[t] <= maxRetries + 1
        /\ (FailureEntries(t) # {}) <=> (taskIssues[t] = maxRetries + 1)
        /\ Cardinality(FailureEntries(t)) <= 1
        /\ \A r \in FailureEntries(t) :
               /\ r.attempted = maxRetries
               /\ r.reason = "task_error"
               /\ r.id = tasks[t]

C2_Witness ==
    \E t \in TaskInsts :
        /\ maxRetries = MaxRetriesBound
        /\ taskIssues[t] = maxRetries + 1
        /\ \E k \in 1..Len(results) :
               results[k].inst = t /\ ~results[k].success

(* ------------------------------------------------------------------ C3 *)
IsKeyIssue(e) == IsPermanentlyExhausted(e) \/ IsRateLimit(e)

\* C3: a key_issue outcome requeues the task at the tail with its
\* _task_error_count unchanged and adds one to retried_tasks, appending no
\* record; a task with no task_issue outcome has no failure record, however
\* many key_issue outcomes it had.
C3_KeyIssueNotCounted ==
    /\ [](\A t \in TaskInsts : taskIssues[t] = 0 => FailureEntries(t) = {})
    /\ [][\A w \in Slots : \A e \in Errors :
            (pc[w] = "calling" /\ IsKeyIssue(e) /\ W_CallRaises(w, e)) =>
                /\ errCount' = errCount
                /\ taskIssues' = taskIssues
                /\ stats'.retried_tasks = stats.retried_tasks + 1
                /\ queue' = Append(queue, held[w])
                /\ results' = results
                /\ resultEntry' = resultEntry]_vars

C3_Witness ==
    /\ stats.retried_tasks >= 2
    /\ \A t \in TaskInsts : errCount[t] = 0 /\ taskIssues[t] = 0
    /\ \E s \in Slots : exhausted[s]
    /\ \E s \in Slots : cooldownUntil[s] > now
    /\ queue # <<>>

(* ------------------------------------------------------------------ C4 *)
Seeded(t) == tasks[t] \notin LoadedIds(results)

\* C4: after a checkpoint with the ids D was loaded, no task with an id in D
\* is enqueued or called, and the returned list is the checkpoint's records
\* followed by one record for each submitted task with an id outside D; when
\* every submitted id is in D the loaded records are returned with no worker
\* started and no call made.
C4_ResumeSkipsDone ==
    pcMain \in {"joining", "gathering", "returned"} =>
        /\ \A k \in 1..Len(queue) :
               queue[k] # Sentinel => Seeded(queue[k])
        /\ \A w \in Slots : held[w] # 0 => Seeded(held[w])
        /\ \A k \in 1..Len(results) :
               results[k].inst # 0 => Seeded(results[k].inst)
        /\ pcMain = "returned" =>
               /\ retval = LoadedPart(retval) \o RunPart(retval)
               /\ \A t \in TaskInsts :
                      Cardinality(RecordsOf(retval, t)) =
                          IF tasks[t] \in LoadedIds(retval) THEN 0 ELSE 1
        /\ (\A t \in TaskInsts : ~Seeded(t)) =>
               /\ pcMain = "returned"
               /\ retval = LoadedResults(file)
               /\ \A w \in Slots : pc[w] = "notstarted"
               /\ stats.total_api_calls = 0

C4_Witness ==
    /\ pcMain = "returned"
    /\ LoadedIds(retval) # {}
    /\ \E t \in TaskInsts : tasks[t] \in LoadedIds(retval)
    /\ \E t \in TaskInsts :
           /\ tasks[t] \notin LoadedIds(retval)
           /\ Cardinality(RecordsOf(retval, t)) = 1
    /\ stats.total_api_calls = 1

(* ------------------------------------------------------------------ C5 *)
\* C5: once a slot is marked exhausted it stays exhausted, and from then on
\* its worker never starts a remote call or a rate-limit wait for one: each
\* task it pops is skipped, also when now >= cooldownUntil of the slot.
C5_ExhaustedForever ==
    [][\A s \in Slots :
          exhausted[s] =>
              /\ exhausted'[s]
              /\ pc[s] \in {"idle", "paused", "stopped"}
              /\ pc'[s] \in {"idle", "paused", "stopped"}
              /\ lastCallAt'[s] = lastCallAt[s]
              /\ cooldownUntil'[s] = cooldownUntil[s]
              /\ stats'.total_api_calls > stats.total_api_calls =>
                     \E w \in Slots \ {s} : pc'[w] = "calling"]_vars

C5_Witness ==
    \E s \in Slots :
        /\ exhausted[s]
        /\ pc[s] = "paused"
        /\ cooldownUntil[s] > 0
        /\ now >= cooldownUntil[s]

(* ------------------------------------------------------------------ C6 *)
\* C6: a remote call on a slot starts at least RateLimitPerSlot after the
\* end of the previous call on that slot, and the end of every call, returned
\* or raised, is recorded in lastCallAt.
C6_RateLimitSpacing ==
    [][\A w \in Slots :
          /\ (pc[w] # "calling" /\ pc'[w] = "calling") =>
                 now >= lastCallAt[w] + RateLimitPerSlot
          /\ (pc[w] = "calling" /\ pc'[w] # "calling") =>
                 lastCallAt'[w] = now]_vars

C6_Witness ==
    \E w \in Slots :
        /\ pc[w] = "calling"
        /\ lastCallAt[w] >= StartTime
        /\ now = lastCallAt[w] + RateLimitPerSlot
        /\ stats.successful_requests > 0
        /\ stats.retried_tasks > 0

(* ------------------------------------------------------------------ C7 *)
Drained ==
    /\ \A k \in 1..Len(queue) : queue[k] = Sentinel
    /\ \A w \in Slots : held[w] = 0
    /\ \A t \in TaskInsts :
           Seeded(t) => Cardinality(RecordsOf(results, t)) = 1

\* C7: when queue.join() completes, no task is pending or held and every
\* seeded task has its record; a requeue never lets the join complete early.
C7_JoinOnlyWhenDrained ==
    (joinWoken \/ pcMain = "gathering") => Drained

C7_Witness ==
    /\ pcMain = "gathering"
    /\ stats.retried_tasks > 0
    /\ \E s \in Slots : pc[s] = "paused"
    /\ \E t \in TaskInsts : errCount[t] > 0

(* ------------------------------------------------------------------ C8 *)
HintedCooldown(h) ==
    IF h = NoHint THEN DefaultCooldown ELSE Min(h, MaxCooldown)

\* C8: a call error classified as rate/quota exceeded sets the cooldown of
\* the slot to now + 60 when no retry hint was extracted and to
\* now + min(h, 120) for every extracted hint h >= 0.
C8_CooldownFromHint ==
    [][\A w \in Slots : \A e \in Errors :
          (/\ pc[w] = "calling"
           /\ ~IsPermanentlyExhausted(e)
           /\ IsRateLimit(e)
           /\ W_CallRaises(w, e))
              => cooldownUntil'[w] = now + HintedCooldown(ExtractRetryDelay(e))
      ]_vars

(* ------------------------------------------------------------------ C9 *)
AllRecorded ==
    \A t \in TaskInsts : Seeded(t) => Cardinality(RecordsOf(retval, t)) = 1

Usable(s) == IF s \in Slots THEN ~exhausted[s] ELSE FALSE

\* C9: if some slot is never marked exhausted (the remote service fails at
\* most FailureAllowance calls, so no slot fails with key issues forever), then
\* generate_batch eventually returns with a record for every seeded task,
\* whatever the other slots do.
C9_ProgressWithOneUsableSlot ==
    (\E s \in 1..NumSlots : [](Usable(s)))
        => <>(pcMain = "returned" /\ AllRecorded)

C9_Witness ==
    /\ pcMain = "returned"
    /\ AllRecorded
    /\ \E s \in Slots : exhausted[s]
    /\ \E s \in Slots : ~exhausted[s] /\ cooldownUntil[s] > 0
    /\ Len(RunPart(retval)) > 0

(* ----------------------------------------------------------------- C10 *)
Stalled ==
    /\ pcMain \in {"joining", "gathering", "returned"}
    /\ \A s \in Slots : exhausted[s]
    /\ \E t \in TaskInsts : Seeded(t) /\ RecordsOf(results, t) = {}

CompleteDocument(f, rs) ==
    /\ f.kind = "json"
    /\ \/ f.recs = rs
       \/ rs # <<>> /\ f.recs = SubSeq(rs, 1, Len(rs) - 1)

\* C11: with an output file, every step that touches the checkpoint artifact
\* leaves it a complete serialization of the results appended so far, so an
\* interrupt at any point, also in the middle of a checkpoint write, finds no
\* empty, truncated or partial document.
C11_CheckpointNeverTruncated ==
    [][(outputFile /\ file' # file) => CompleteDocument(file', results')]_vars

(* ----------------------------------------------------------------- C12 *)
\* The worker is back in its loop: at queue.get, or on its way to append a
\* record.
InWorkerLoop(w) == pc'[w] \in {"idle", "lockwait", "opening"}

Absorbed(w) ==
    LET t == held[w]
    IN /\ InWorkerLoop(w)
       /\ \A x \in Slots \ {w} : pc'[x] = pc[x]
       /\ pcMain' = pcMain
       /\ retval' = retval
       /\ \/ /\ taskIssues' = taskIssues            \* key_issue
             /\ queue' = Append(queue, t)
             /\ results' = results
             /\ resultEntry' = resultEntry
          \/ /\ taskIssues'[t] = taskIssues[t] + 1   \* task_issue
             /\ \/ /\ queue' = Append(queue, t)
                   /\ results' = results
                   /\ resultEntry' = resultEntry
                \/ /\ taskIssues'[t] = maxRetries + 1
                   /\ queue' = queue
                   /\ \/ results' = Append(results,
                                           FailureEntry(t, maxRetries))
                      \/ /\ results' = results
                         /\ resultEntry'[w] = FailureEntry(t, maxRetries)

\* C12: every failed remote call (permanent exhaustion, rate limit, other
\* error, unparsable content) ends as a key_issue or task_issue outcome inside
\* the worker, which stays in its loop while generate_batch is undisturbed; a
\* record with success = false exists for a task only once its task-level
\* retries are exhausted.
C12_FailuresAbsorbed ==
    /\ [](\A t \in TaskInsts :
            FailureEntries(t) # {} => taskIssues[t] = maxRetries + 1)
    /\ [][\A w \in Slots :
            /\ \A e \in Errors :
                   (pc[w] = "calling" /\ W_CallRaises(w, e)) => Absorbed(w)
            /\ (pc[w] = "calling" /\ W_CallReturns(w, FALSE))
                   => Absorbed(w)]_vars

C12_Witness ==
    /\ pcMain = "joining"
    /\ \E s \in Slots : exhausted[s]
    /\ \E s \in Slots : cooldownUntil[s] > 0
    /\ \E k \in 1..Len(results) : ~results[k].success
    /\ \A w \in Slots : pc[w] \in {"idle", "paused"}

(* ----------------------------------------------------------------- C13 *)
\* C13: a configuration with zero usable credentials is rejected at
\* construction, before any slot, queue or worker exists, and therefore no
\* batch seeds its queue with zero execution slots to serve it.
C13_NoBatchWithoutSlots ==
    /\ apiKeys = 0 =>
           /\ pcMain = "rejected"
           /\ Slots = {}
           /\ queue = <<>>
           /\ unfinished = 0
    /\ (queue # <<>> \/ pcMain \in {"joining", "gathering"}) => Slots # {}

(* ----------------------------------------------------------------- C14 *)
\* Number of places task instance t is in: the queue, the hands of a worker
\* that has not appended its record yet, the result list.
Located(t) ==
    Cardinality({k \in 1..Len(queue) : queue[k] = t})
    + Cardinality({w \in Slots : held[w] = t
                                   /\ pc[w] \notin {"opening", "writing"}})
    + Cardinality(RecordsOf(results, t))

SameIdPair(i, j) ==
    /\ i # j
    /\ tasks[i] = tasks[j]
    /\ Seeded(i)

\* C14: two submitted tasks with the same id, absent from the loaded
\* checkpoint, are both enqueued and both get their own terminal record; a
\* task is left out of the queue exactly when its id is in the loaded
\* checkpoint, and an id completed in this run drops no pending task.
C14_DuplicateIdsAllProcessed ==
    pcMain \in {"joining", "gathering", "returned"} =>
        \A t \in TaskInsts :
            /\ Located(t) = IF Seeded(t) THEN 1 ELSE 0
            /\ pcMain = "returned" =>
                   Cardinality(RecordsOf(retval, t)) =
                       IF Seeded(t) THEN 1 ELSE 0

C14_Witness ==
    /\ pcMain = "returned"
    /\ \E i, j \in TaskInsts :
           /\ SameIdPair(i, j)
           /\ Cardinality(RecordsOf(retval, i)) = 1
           /\ Cardinality(RecordsOf(retval, j)) = 1
    /\ Len(LoadedPart(retval)) > 0

(* ----------------------------------------------------------------- C15 *)
\* The text a worker passes to _call_model for the task it holds.
PromptSent(w) == WorkerPrompt(TaskDict(held[w]))

\* C15: for every choice of id_key and prompt_key, the text sent to the
\* remote call for a task is the value under prompt_key, and the id under
\* which a task is recorded as completed is the value under id_key.
C15_ConfiguredFieldsUsed ==
    /\ \A w \in Slots :
           pc[w] \in {"ratewait", "calling"} =>
               PromptSent(w) = PromptOf(held[w])
    /\ \A k \in 1..Len(results) :
           results[k].inst # 0 => results[k].id \in doneIds

(* ----------------------------------------------------------------- C16 *)
IsPrefix(a, b) == Len(a) <= Len(b) /\ a = SubSeq(b, 1, Len(a))

\* C16: the result list starts as the records loaded from the checkpoint
\* (none without an output file), afterwards it only grows at its end by
\* records completed in this run, and generate_batch returns it: every earlier
\* state of the list is a prefix of every later one.
C16_AppendOnlyResults ==
    [][/\ IsPrefix(results, results')
       /\ (pcMain = "start" /\ pcMain' # "start") =>
              results' = IF outputFile THEN LoadedResults(file) ELSE <<>>
       /\ (pcMain # "start" /\ results' # results) =>
              /\ Len(results') = Len(results) + 1
              /\ results'[Len(results')].inst # 0
       /\ (pcMain # "returned" /\ pcMain' = "returned") =>
              /\ retval' = results'
              /\ retval' = LoadedPart(retval') \o RunPart(retval')]_vars

C16_Witness ==
    /\ pcMain = "returned"
    /\ Len(LoadedPart(retval)) > 0
    /\ Len(RunPart(retval)) > 1
    /\ \E k \in 1..Len(retval) : retval[k].inst # 0 /\ ~retval[k].success

(* ----------------------------------------------------------------- C17 *)
\* C17: loading the checkpoint raises no error; a record without the id
\* field stays in the result list and adds no id to the completed-id set, and
\* a checkpoint whose content cannot be parsed is treated as empty: the run
\* starts with no result and no completed id and every submitted task is
\* enqueued.
C17_CheckpointLoad ==
    [][(pcMain = "start" /\ pcMain' # "start") =>
          LET f == IF outputFile THEN file ELSE NoFile
          IN /\ pcMain' \in {"joining", "returned"}
             /\ doneIds' = {r.id : r \in {x \in Range(results') : x.hasId}}
             /\ f.kind = "json" => results' = f.recs
             /\ \A t \in TaskInsts :
                    (\E k \in 1..Len(queue') : queue'[k] = t)
                        <=> tasks[t] \notin doneIds'
             /\ f.kind # "json" =>
                    /\ results' = <<>>
                    /\ doneIds' = {}
                    /\ queue' = [t \in TaskInsts |-> t]]_vars

(* ----------------------------------------------------------------- C18 *)
\* Every remote call of the run succeeded: no call failed, so no task was
\* requeued after a call and no slot was put on cooldown or exhausted.
AllCallsSucceeded ==
    /\ pcMain = "returned"
    /\ FailedCalls = 0
    /\ stats.retried_tasks = 0
    /\ stats.failed_requests = 0

OneSuccessRecordPerTask(rs) ==
    /\ Len(rs) = Len(tasks)
    /\ \A k \in 1..Len(rs) : rs[k].success
    /\ \A t \in TaskInsts : Cardinality(RecordsOf(rs, t)) = 1

\* C18 (as stated): in a run where every call succeeds on its first attempt
\* the returned list has exactly one record per submitted task, all with
\* success = true, and total_api_calls is the number of submitted tasks.
C18_AllSucceed ==
    AllCallsSucceeded =>
        /\ OneSuccessRecordPerTask(retval)
        /\ stats.total_api_calls = Len(tasks)

\* C18 (amended): the same for a run that loaded no record from a prior
\* checkpoint; in every run where every call succeeds, each task whose id was
\* not loaded has exactly one record, with success = true, and
\* total_api_calls is the number of those tasks.
C18_AllSucceedFreshRun ==
    AllCallsSucceeded =>
        /\ LoadedPart(retval) = <<>> =>
               /\ OneSuccessRecordPerTask(retval)
               /\ stats.total_api_calls = Len(tasks)
        /\ \A t \in TaskInsts :
               Seeded(t) =>
                   /\ Cardinality(RecordsOf(retval, t)) = 1
                   /\ \A k \in RecordsOf(retval, t) : retval[k].success
        /\ stats.total_api_calls =
               Cardinality({t \in TaskInsts : Seeded(t)})
        /\ stats.successful_requests = stats.total_api_calls

C18_Witness ==
    /\ AllCallsSucceeded
    /\ LoadedPart(retval) = <<>>
    /\ Len(tasks) = Min(MaxTasks, WorkBudget)
    /\ stats.total_api_calls = Len(tasks)
    /\ Len(retval) = Len(tasks)

(* ----------------------------------------------------------------- C19 *)
SentinelsQueued == Cardinality({k \in 1..Len(queue) : queue[k] = Sentinel})

StoppedWorkers == {w \in Slots : pc[w] = "stopped"}

\* C19: after the join generate_batch enqueues one sentinel per worker; a
\* worker stops exactly by popping one sentinel, without a call and without
\* requeueing it; no sentinel is held for a call; and generate_batch then
\* returns with every worker stopped, whatever the state of its slot.
C19_SentinelShutdown ==
    /\ [](/\ pcMain \in {"start", "joining"} =>
               SentinelsQueued = 0 /\ StoppedWorkers = {}
          /\ pcMain = "gathering" =>
               /\ SentinelsQueued + Cardinality(StoppedWorkers) = TotalSlots
               /\ SentinelsQueued = Len(queue)
          /\ pcMain = "returned" =>
               /\ queue = <<>>
               /\ \A w \in Slots : pc[w] \in {"notstarted", "stopped"}
          /\ \A w \in Slots :
               pc[w] \in {"ratewait", "calling"} => held[w] \in TaskInsts)
    /\ [][\A w \in Slots :
            /\ pc[w] = "stopped" => pc'[w] = "stopped"
            /\ (pc[w] # "stopped" /\ pc'[w] = "stopped") =>
                   /\ pc[w] = "idle"
                   /\ Head(queue) = Sentinel
                   /\ queue' = Tail(queue)
                   /\ stats' = stats
                   /\ activeCount' = activeCount]_vars
    /\ (pcMain = "gathering" ~> pcMain = "returned")

C19_Witness ==
    /\ pcMain = "returned"
    /\ TotalSlots = NumSlots
    /\ \A w \in Slots : pc[w] = "stopped"
    /\ \E s \in Slots : exhausted[s]
    /\ \E s \in Slots : ~exhausted[s] /\ cooldownUntil[s] > 0

(* ----------------------------------------------------------------- C20 *)
\* Workers between their append to the result list and the end of the
\* checkpoint write that follows it.
InSaveSection == {w \in Slots : pc[w] \in {"opening", "writing"}}

\* C20: at most one worker at a time is inside the append-and-persist
\* section, it is the holder of the save lock, and while it is inside no
\* other worker appends to the result list or writes the checkpoint.
C20_SaveMutualExclusion ==
    /\ [](/\ Cardinality(InSaveSection) <= 1
          /\ \A w \in Slots : (w \in InSaveSection) <=> (saveLock = w))
    /\ [][\A w \in InSaveSection :
            /\ results' = results
            /\ file' # file => pc'[w] # pc[w]
            /\ \A x \in Slots \ {w} : pc'[x] \notin {"opening", "writing"}
          ]_vars

C20_Witness ==
    \E w, x \in Slots :
        /\ pc[w] = "writing"
        /\ pc[x] = "lockwait"
        /\ results # <<>>

(* ----------------------------------------------------------------- C21 *)
\* C21: with an output file, whenever no worker is inside the
\* append-and-persist section and a record was appended in this run, the
\* checkpoint holds the whole current result list, loaded records included.
C21_CheckpointIsFullList ==
    (outputFile /\ InSaveSection = {} /\ RunPart(results) # <<>>)
        => file = JsonFile(results)

C21_Witness ==
    /\ outputFile
    /\ InSaveSection = {}
    /\ Len(LoadedPart(results)) > 0
    /\ Len(RunPart(results)) > 1
    /\ file = JsonFile(results)

(* ----------------------------------------------------------------- C22 *)
InCall == {w \in Slots : pc[w] = "calling"}

\* C22: the active-call gauge goes up by one when a remote call starts and
\* down by one when it ends, on every exit path, and is untouched by a skip;
\* it is the number of workers inside a remote call, never negative, never
\* above the number of slots, and 0 when generate_batch returns.
C22_ActiveGauge ==
    /\ [](/\ activeCount = Cardinality(InCall)
          /\ activeCount >= 0
          /\ activeCount <= TotalSlots
          /\ pcMain = "returned" => activeCount = 0)
    /\ [][\A w \in Slots :
            /\ (pc[w] # "calling" /\ pc'[w] = "calling") =>
                   activeCount' = activeCount + 1
            /\ (pc[w] = "calling" /\ pc'[w] # "calling") =>
                   activeCount' = activeCount - 1
            /\ (pc[w] = "idle" /\ pc'[w] = "paused") =>
                   activeCount' = activeCount]_vars

C22_Witness ==
    /\ activeCount = NumSlots
    /\ stats.retried_tasks > 0
    /\ \E s \in Slots : cooldownUntil[s] > 0

(* ----------------------------------------------------------------- C23 *)
\* C23: a worker that pops a task while its slot is unavailable (exhausted,
\* or now < cooldownUntil) makes no call: it puts the task back at the tail
\* unchanged and leaves lastCallAt, cooldownUntil, exhausted, the gauge,
\* total_api_calls, the task's error count and retried_tasks as they were.
C23_SkipFrame ==
    [][\A w \in Slots :
          /\ (pc[w] = "idle" /\ pc'[w] = "paused") =>
                 /\ exhausted[w] \/ now < cooldownUntil[w]
                 /\ queue' = Append(Tail(queue), Head(queue))
                 /\ lastCallAt' = lastCallAt
                 /\ cooldownUntil' = cooldownUntil
                 /\ exhausted' = exhausted
                 /\ activeCount' = activeCount
                 /\ stats' = stats
                 /\ errCount' = errCount
                 /\ taskIssues' = taskIssues
                 /\ results' = results
                 /\ unfinished' = unfinished
          /\ (pc[w] = "idle" /\ pc'[w] # "idle"
                 /\ (exhausted[w] \/ now < cooldownUntil[w])) =>
                 pc'[w] \in {"paused", "stopped"}]_vars

C23_Witness ==
    \E w \in Slots :
        /\ pc[w] = "paused"
        /\ ~exhausted[w]
        /\ now < cooldownUntil[w]
        /\ Len(queue) > 1
        /\ \E t \in TaskInsts : errCount[t] > 0

(* ------------------------------------------------------------------ C24 *)
SlotFields(s) == <<lastCallAt[s], cooldownUntil[s], exhausted[s]>>

\* C24: a batch runs one worker for each of the apiKeys * workersPerKey
\* slots, every one of them started; a worker holds at most one task, two
\* workers never hold the same task, a worker in a remote call holds a task,
\* and lastCallAt, cooldownUntil and exhausted of a slot change only in a
\* step of that slot's worker that ends its remote call.
C24_OneWorkerPerSlot ==
    /\ [](/\ DOMAIN pc = 1..(apiKeys * workersPerKey)
          /\ DOMAIN lastCallAt = DOMAIN pc
          /\ DOMAIN cooldownUntil = DOMAIN pc
          /\ DOMAIN exhausted = DOMAIN pc
          /\ pcMain \in {"joining", "gathering"}
                => \A w \in DOMAIN pc : pc[w] # "notstarted"
          /\ \A w \in DOMAIN pc : held[w] \in TaskInsts \cup {0}
          /\ \A w \in DOMAIN pc : pc[w] = "calling" => held[w] \in TaskInsts
          /\ \A w, x \in DOMAIN pc :
                (w # x /\ held[w] \in TaskInsts) => held[w] # held[x])
    /\ [][\A s \in DOMAIN pc :
             SlotFields(s)' # SlotFields(s)
                => /\ pc[s] = "calling"
                   /\ pc'[s] # "calling"
                   /\ \A x \in DOMAIN pc \ {s} :
                         pc'[x] = pc[x] /\ SlotFields(x)' = SlotFields(x)
      ]_vars

C24_Witness ==
    /\ apiKeys * workersPerKey = NumSlots
    /\ \A w \in Slots : pc[w] = "calling"
    /\ \E w, x \in Slots : lastCallAt[w] > lastCallAt[x]
    /\ \E w \in Slots : cooldownUntil[w] > 0

(* ------------------------------------------------------------------ C25 *)
ErrorClass(e) ==
    IF e.perm THEN "permanent"
    ELSE IF ExtractRetryDelay(e) # NoHint \/ e.rl THEN "rate"
    ELSE "other"

KeyIssueOutcome(w) ==
    /\ queue' = Append(queue, held[w])
    /\ stats'.retried_tasks = stats.retried_tasks + 1
    /\ errCount' = errCount
    /\ taskIssues' = taskIssues
    /\ results' = results

\* C25: a failed call has exactly one class, and a permanent signature wins:
\* with a permanent signature the slot is marked exhausted, the outcome is a
\* key issue and cooldownUntil is unchanged, whatever hint or rate-limit
\* signature the error also carries; without one, a hint or a rate-limit
\* signature puts the slot on cooldown with a key issue and leaves exhausted
\* unchanged; any other error is a task issue.
C25_ClassificationPrecedence ==
    [][\A w \in Slots : \A e \in Errors :
          (pc[w] = "calling" /\ W_CallRaises(w, e))
             => CASE ErrorClass(e) = "permanent" ->
                       /\ exhausted' = [exhausted EXCEPT ![w] = TRUE]
                       /\ cooldownUntil' = cooldownUntil
                       /\ KeyIssueOutcome(w)
                  [] ErrorClass(e) = "rate" ->
                       /\ exhausted' = exhausted
                       /\ \E d \in {DefaultCooldown,
                                    Min(ExtractRetryDelay(e), MaxCooldown)} :
                             cooldownUntil' =
                                 [cooldownUntil EXCEPT ![w] = now + d]
                       /\ KeyIssueOutcome(w)
                  [] ErrorClass(e) = "other" ->
                       /\ exhausted' = exhausted
                       /\ cooldownUntil' = cooldownUntil
                       /\ taskIssues'[held[w]] = taskIssues[held[w]] + 1
      ]_vars

C25_Witness ==
    /\ \E s \in Slots : exhausted[s] /\ cooldownUntil[s] = 0
    /\ \E s \in Slots : ~exhausted[s] /\ cooldownUntil[s] > now
    /\ \E t \in TaskInsts : taskIssues[t] > 0

(* ------------------------------------------------------------------ C26 *)
TaskIssueStep(w) ==
    \/ W_CallReturns(w, FALSE)
    \/ \E e \in Errors : ErrorClass(e) = "other" /\ W_CallRaises(w, e)

\* C26: a task issue, from an unclassified error or from a response that
\* does not parse, leaves cooldownUntil and exhausted of every slot unchanged
\* and sets only lastCallAt of the calling slot; the slot is available
\* afterwards, and the task's error count goes up by one or, at maxRetries,
\* the task gets its failure record.
C26_TaskIssueKeepsSlot ==
    [][\A w \in Slots :
          (pc[w] = "calling" /\ TaskIssueStep(w))
             => /\ cooldownUntil' = cooldownUntil
                /\ exhausted' = exhausted
                /\ lastCallAt' = [lastCallAt EXCEPT ![w] = now]
                /\ IsSlotAvailable(w)
                /\ IsSlotAvailable(w)'
                /\ taskIssues'[held[w]] = taskIssues[held[w]] + 1
                /\ \/ /\ errCount[held[w]] < maxRetries
                      /\ errCount'[held[w]] = errCount[held[w]] + 1
                      /\ queue' = Append(queue, held[w])
                   \/ /\ errCount[held[w]] = maxRetries
                      /\ errCount' = errCount
                      /\ LET r == FailureEntry(held[w], errCount[held[w]])
                         IN \/ results' = Append(results, r)
                            \/ results' = results /\ resultEntry'[w] = r
      ]_vars

C26_Witness ==
    \E w \in Slots :
        /\ pc[w] = "calling"
        /\ lastCallAt[w] > StartTime
        /\ cooldownUntil[w] = 0
        /\ taskIssues[held[w]] > 0
        /\ errCount[held[w]] > 0
        /\ stats.retried_tasks = taskIssues[held[w]]

(* ------------------------------------------------------------------ C27 *)
\* C27: the cooldown deadline of a slot never moves backwards, whatever
\* retry hint the error carries.
C27_CooldownMonotonic ==
    [][\A s \in Slots : cooldownUntil'[s] >= cooldownUntil[s]]_vars

(* ------------------------------------------------------------------ C28 *)
\* C28: the queue is first in, first out: seeding enqueues the tasks without
\* a loaded id in input order; afterwards every step leaves the queue as it
\* is, removes its head for the worker that takes it, or appends at its
\* tail: a requeued task after a call, the skipped head, or the sentinels
\* after the join.
C28_FifoQueue ==
    [][/\ (pcMain = "start" /\ pcMain' = "joining")
             => /\ \A k \in 1..(Len(queue') - 1) : queue'[k] < queue'[k + 1]
                /\ Range(queue') = {t \in TaskInsts : Seeded(t)'}
       /\ pcMain # "start"
             => \/ queue' = queue
                \/ /\ queue # <<>>
                   /\ queue' = Tail(queue)
                   /\ \E w \in Slots :
                         /\ pc[w] = "idle"
                         /\ IF Head(queue) = Sentinel
                            THEN pc'[w] = "stopped"
                            ELSE held'[w] = Head(queue)
                \/ \E w \in Slots :
                      /\ pc[w] = "calling"
                      /\ held[w] \in TaskInsts
                      /\ queue' = Append(queue, held[w])
                \/ /\ queue # <<>>
                   /\ queue' = Append(Tail(queue), Head(queue))
                   /\ \E w \in Slots : pc[w] = "idle" /\ pc'[w] = "paused"
                \/ /\ pcMain = "joining"
                   /\ pcMain' = "gathering"
                   /\ IsPrefix(queue, queue')
                   /\ \A k \in (Len(queue) + 1)..Len(queue') :
                         queue'[k] = Sentinel
       /\ \A w \in Slots :
             (pc[w] = "idle" /\ pc'[w] = "paused")
                => queue' = Append(Tail(queue), Head(queue))
       /\ \A w \in Slots :
             (pc[w] = "calling" /\ pc'[w] = "idle")
                => queue' \in {queue, Append(queue, held[w])}
      ]_vars

C28_Witness ==
    /\ pcMain = "joining"
    /\ Len(queue) = 2
    /\ queue[1] \in TaskInsts
    /\ queue[2] \in TaskInsts
    /\ queue[1] > queue[2]
    /\ errCount[queue[2]] > 0
    /\ \E w \in Slots : pc[w] = "paused"

Pending(t) == {k \in 1..Len(queue) : queue[k] = t}

Holders(t) == {w \in Slots : held[w] = t}

Working == {"ratewait", "calling", "lockwait"}

\* C30: once the batch is seeded, a task without a loaded id is in exactly
\* one place: once in the queue, or with exactly one worker that is waiting,
\* calling or about to record it, or recorded once in this run (its worker
\* may still be writing the checkpoint); a task with a loaded id is in none;
\* a recorded task never returns to the queue or to a worker and gets no
\* second record.
C30_TaskConservation ==
    /\ [](pcMain \in {"joining", "gathering", "returned"} =>
            \A t \in TaskInsts :
               LET q == Cardinality(Pending(t))
                   h == Cardinality(Holders(t))
                   r == Cardinality(RecordsOf(results, t))
               IN IF ~Seeded(t) THEN q = 0 /\ h = 0 /\ r = 0
                  ELSE \/ q = 1 /\ h = 0 /\ r = 0
                       \/ /\ q = 0 /\ h = 1 /\ r = 0
                          /\ \A w \in Holders(t) : pc[w] \in Working
                       \/ /\ q = 0 /\ h <= 1 /\ r = 1
                          /\ \A w \in Holders(t) : w \in InSaveSection)
    /\ [][\A t \in TaskInsts :
             RecordsOf(results, t) # {}
                => /\ RecordsOf(results', t) = RecordsOf(results, t)
                   /\ Pending(t)' = {}
                   /\ Holders(t)' \subseteq Holders(t)
      ]_vars

C30_Witness ==
    /\ pcMain = "joining"
    /\ \E t \in TaskInsts :
          /\ Cardinality(RecordsOf(results, t)) = 1
          /\ Holders(t) = {}
    /\ \E t \in TaskInsts :
          /\ errCount[t] > 0
          /\ Cardinality(Holders(t)) = 1
          /\ RecordsOf(results, t) = {}
    /\ queue = <<>>

(* ------------------------------------------------------------------ C31 *)
AwaitingSave == {w \in Slots : pc[w] = "lockwait"}

CallsStarted == {w \in Slots : pc[w] # "calling" /\ pc'[w] = "calling"}

\* Calls that end with the task back in the queue: key issues and task
\* issues with retries left.
CallsRequeued ==
    {w \in Slots : /\ pc[w] = "calling"
                   /\ pc'[w] = "idle"
                   /\ queue' = Append(queue, held[w])}

StatsSteps ==
    [][/\ stats'.total_requests >= stats.total_requests
       /\ stats'.successful_requests >= stats.successful_requests
       /\ stats'.failed_requests >= stats.failed_requests
       /\ stats'.total_api_calls >= stats.total_api_calls
       /\ stats'.retried_tasks >= stats.retried_tasks
       /\ stats'.total_api_calls =
              stats.total_api_calls + Cardinality(CallsStarted)
       /\ stats'.retried_tasks =
              stats.retried_tasks + Cardinality(CallsRequeued)
      ]_vars

\* C31 as stated: the counters never decrease; total_requests is
\* successful_requests + failed_requests and is the number of records
\* appended in this run, in every state; total_api_calls goes up by one
\* exactly when a call starts and retried_tasks by one exactly when a call
\* ends with its task requeued (never on a skip).
C31_StatsConsistent ==
    /\ [](/\ stats.total_requests =
                 stats.successful_requests + stats.failed_requests
          /\ stats.total_requests = Len(RunPart(results)))
    /\ StatsSteps

\* C31, amended: the terminal outcome is counted before the worker has the
\* save lock, so total_requests is the number of records appended in this
\* run plus the number of workers waiting for the lock with their record.
C31_StatsConsistentUpToPendingSaves ==
    /\ [](/\ stats.total_requests =
                 stats.successful_requests + stats.failed_requests
          /\ stats.total_requests =
                 Len(RunPart(results)) + Cardinality(AwaitingSave)
          /\ stats.successful_requests =
                 Cardinality({k \in 1..Len(results) :
                                 results[k].inst # 0 /\ results[k].success})
                 + Cardinality({w \in AwaitingSave : resultEntry[w].success})
          /\ stats.total_api_calls >=
                 stats.total_requests + stats.retried_tasks + activeCount)
    /\ StatsSteps

C31_Witness ==
    /\ AwaitingSave # {}
    /\ stats.total_requests = Len(RunPart(results)) + 1
    /\ stats.retried_tasks > 0
    /\ RunPart(results) # <<>>

====
